---- MODULE Spec2Model ----
(***************************************************************************)
(* Model of the HTTP request handler of voyager-stats (lib/handler.js):    *)
(* routing, defaulting / validation / trimming of the "from" and "to"      *)
(* query parameters, the cache-control policy and the error handler.       *)
(*                                                                         *)
(* Strings the code inspects character by character (parameter values,     *)
(* query strings) are sequences of one-character strings.  Path names are  *)
(* kept as the pieces between their slashes, i.e. pathname.split('/').     *)
(* The clock counts minutes since the Unix epoch.                          *)
(***************************************************************************)
EXTENDS Integers, Sequences, FiniteSets, TLC

\* ------------------------------------------------------------------------
\* Bounds of the model
\* ------------------------------------------------------------------------

\* number of request slots (requests that can be in flight together)
NumReqs == 2
\* how many times the clock advances
MaxTicks == 8
\* how many times a client follows a redirect to its location
MaxFollows == 3

\* ------------------------------------------------------------------------
\* Clock
\* ------------------------------------------------------------------------

MinutesPerHour == 60
MinutesPerDay == 24 * MinutesPerHour
\* the clock advances in steps of ten minutes
TickMinutes == 10
\* 2023-12-31T23:50Z, in minutes since the epoch (day 19722)
ClockStart == 28401110

\* ------------------------------------------------------------------------
\* Strings
\* ------------------------------------------------------------------------

\* null: what searchParams.get gives for a name that is not there
Absent == <<"<null>">>

Digits == {"0", "1", "2", "3", "4", "5", "6", "7", "8", "9"}

DigitChar(n) == <<"0", "1", "2", "3", "4", "5", "6", "7", "8", "9">>[n + 1]

\* UTF-16 code units of the characters the model uses
CharCode(c) ==
  CASE c = " " -> 32 [] c = "%" -> 37 [] c = "&" -> 38 [] c = "+" -> 43
    [] c = "-" -> 45 [] c = "." -> 46 [] c = "/" -> 47
    [] c = "0" -> 48 [] c = "1" -> 49 [] c = "2" -> 50 [] c = "3" -> 51
    [] c = "4" -> 52 [] c = "5" -> 53 [] c = "6" -> 54 [] c = "7" -> 55
    [] c = "8" -> 56 [] c = "9" -> 57 [] c = ":" -> 58 [] c = "=" -> 61
    [] c = "A" -> 65 [] c = "F" -> 70 [] c = "J" -> 74 [] c = "T" -> 84
    [] c = "Z" -> 90 [] c = "a" -> 97 [] c = "f" -> 102 [] c = "m" -> 109
    [] c = "n" -> 110 [] c = "o" -> 111 [] c = "r" -> 114 [] c = "t" -> 116

\* a < b for JavaScript strings: lexicographic on code units
RECURSIVE StrLess(_, _)
StrLess(a, b) ==
  IF b = <<>> THEN FALSE
  ELSE IF a = <<>> THEN TRUE
  ELSE IF CharCode(Head(a)) # CharCode(Head(b))
       THEN CharCode(Head(a)) < CharCode(Head(b))
       ELSE StrLess(Tail(a), Tail(b))

\* a >= b for JavaScript strings
StrGE(a, b) == ~StrLess(a, b)

\* n as w decimal digits, zero padded
RECURSIVE PadNum(_, _)
PadNum(n, w) ==
  IF w = 0 THEN <<>> ELSE Append(PadNum(n \div 10, w - 1), DigitChar(n % 10))

\* ------------------------------------------------------------------------
\* Dates
\* ------------------------------------------------------------------------

\* the proleptic Gregorian date of a day number (days since 1970-01-01),
\* as Date.prototype.toISOString computes it
CivilFromDays(days) ==
  LET z == days + 719468
      era == z \div 146097
      doe == z - era * 146097
      yoe == (doe - doe \div 1460 + doe \div 36524 - doe \div 146096) \div 365
      doy == doe - (365 * yoe + yoe \div 4 - yoe \div 100)
      mp == (5 * doy + 2) \div 153
      d == doy - (153 * mp + 2) \div 5 + 1
      m == IF mp < 10 THEN mp + 3 ELSE mp - 9
      y == yoe + era * 400 + (IF m <= 2 THEN 1 ELSE 0)
  IN [year |-> y, month |-> m, day |-> d]

\* d.toISOString().split('T')[0] of the instant t (minutes since the epoch)
getDayAsISOString(t) ==
  LET c == CivilFromDays(t \div MinutesPerDay)
  IN PadNum(c.year, 4) \o <<"-">> \o PadNum(c.month, 2) \o <<"-">> \o PadNum(c.day, 2)

\* today() as it would be if it shared the hour of grace of the cache boundary
todayAnHourAgo(t) == getDayAsISOString(t - MinutesPerHour)

\* today(), when the clock reads t
today(t) == getDayAsISOString(t)


\* ------------------------------------------------------------------------
\* Query strings (WHATWG application/x-www-form-urlencoded)
\* ------------------------------------------------------------------------

S_from == <<"f", "r", "o", "m">>
S_to == <<"t", "o">>

\* bytes the serializer leaves as they are: ASCII alphanumerics and * - . _
FormSafe ==
  Digits \cup {"A", "F", "J", "T", "Z", "a", "f", "m", "n", "o", "r", "t", "-", "."}

\* the serializer's output for one character
FormEncodeChar(c) ==
  IF c \in FormSafe THEN <<c>>
  ELSE CASE c = " " -> <<"+">>
         [] c = "%" -> <<"%", "2", "5">>
         [] c = "&" -> <<"%", "2", "6">>
         [] c = "+" -> <<"%", "2", "B">>
         [] c = "/" -> <<"%", "2", "F">>
         [] c = ":" -> <<"%", "3", "A">>
         [] c = "=" -> <<"%", "3", "D">>

RECURSIVE FormEncode(_)
FormEncode(s) ==
  IF s = <<>> THEN <<>> ELSE FormEncodeChar(Head(s)) \o FormEncode(Tail(s))

\* the byte a percent escape %hl stands for, <<>> when hl is no escape of
\* the model's alphabet
PercentByte(h, l) ==
  CASE h = "2" /\ l = "0" -> <<" ">>
    [] h = "2" /\ l = "5" -> <<"%">>
    [] h = "2" /\ l = "6" -> <<"&">>
    [] h = "2" /\ l = "B" -> <<"+">>
    [] h = "2" /\ l = "F" -> <<"/">>
    [] h = "3" /\ l = "A" -> <<":">>
    [] h = "3" /\ l = "D" -> <<"=">>
    [] OTHER -> <<>>

\* the parser's decoding of a name or value: "+" is a space, %hl a byte
RECURSIVE FormDecode(_)
FormDecode(s) ==
  IF s = <<>> THEN <<>>
  ELSE IF Head(s) = "+" THEN <<" ">> \o FormDecode(Tail(s))
  ELSE IF Head(s) = "%" /\ Len(s) >= 3 /\ PercentByte(s[2], s[3]) # <<>>
       THEN PercentByte(s[2], s[3]) \o FormDecode(SubSeq(s, 4, Len(s)))
  ELSE <<Head(s)>> \o FormDecode(Tail(s))

\* the first position of character c in s, 0 when there is none
RECURSIVE IndexOf(_, _, _)
IndexOf(s, c, i) ==
  IF i > Len(s) THEN 0 ELSE IF s[i] = c THEN i ELSE IndexOf(s, c, i + 1)

\* s.split(c)
RECURSIVE Split(_, _)
Split(s, c) ==
  LET i == IndexOf(s, c, 1)
  IN IF i = 0 THEN <<s>>
     ELSE <<SubSeq(s, 1, i - 1)>> \o Split(SubSeq(s, i + 1, Len(s)), c)

\* the name-value pairs of a query string (without its "?")
ParseSearch(search) ==
  LET pieces == SelectSeq(Split(search, "&"), LAMBDA p : p # <<>>)
      Pair(p) ==
        LET i == IndexOf(p, "=", 1)
        IN IF i = 0 THEN <<FormDecode(p), <<>>>>
           ELSE <<FormDecode(SubSeq(p, 1, i - 1)), FormDecode(SubSeq(p, i + 1, Len(p)))>>
  IN [k \in 1..Len(pieces) |-> Pair(pieces[k])]

\* the first value of that name among the pairs, or null
FirstValue(pairs, name) ==
  IF \A k \in 1..Len(pairs) : pairs[k][1] # name THEN Absent
  ELSE pairs[CHOOSE k \in 1..Len(pairs) :
               /\ pairs[k][1] = name
               /\ \A j \in 1..(k - 1) : pairs[j][1] # name][2]

\* searchParams.get(name)
SearchParamsGet(search, name) == FirstValue(ParseSearch(search), name)

\* `${new URLSearchParams({ from, to })}`
SerializeFromTo(from, to) ==
  S_from \o <<"=">> \o FormEncode(from) \o <<"&">> \o S_to \o <<"=">> \o FormEncode(to)

\* ------------------------------------------------------------------------
\* /^(\d{4}-\d{2}-\d{2})(T\d{2}:\d{2}:\d{2}\.\d{3}Z)?$/
\* ------------------------------------------------------------------------

\* "\\d" stands for the class of decimal digits, any other entry for itself
DatePattern == <<"\\d", "\\d", "\\d", "\\d", "-", "\\d", "\\d", "-", "\\d", "\\d">>
TimePattern ==
  <<"T", "\\d", "\\d", ":", "\\d", "\\d", ":", "\\d", "\\d", ".", "\\d", "\\d", "\\d", "Z">>

MatchesPattern(s, p) ==
  /\ Len(s) = Len(p)
  /\ \A i \in 1..Len(p) : IF p[i] = "\\d" THEN s[i] \in Digits ELSE s[i] = p[i]

\* s.match(re): null, or the two groups (group 2 is <<>> when it did not take part)
NoMatch == [matched |-> FALSE, g1 |-> <<>>, g2 |-> <<>>]

\* the match as it would be without the `$` that anchors the pattern at the end
DateMatchUnanchored(s, n) ==
  IF Len(s) >= n + Len(TimePattern)
     /\ MatchesPattern(SubSeq(s, 1, n), DatePattern)
     /\ MatchesPattern(SubSeq(s, n + 1, n + Len(TimePattern)), TimePattern)
    THEN [matched |-> TRUE, g1 |-> SubSeq(s, 1, n),
          g2 |-> SubSeq(s, n + 1, n + Len(TimePattern))]
  ELSE IF Len(s) >= n /\ MatchesPattern(SubSeq(s, 1, n), DatePattern)
    THEN [matched |-> TRUE, g1 |-> SubSeq(s, 1, n), g2 |-> <<>>]
  ELSE NoMatch

\* the match of s when its first n characters are to be the date
DateMatchAt(s, n) ==
  IF MatchesPattern(s, DatePattern)
    THEN [matched |-> TRUE, g1 |-> s, g2 |-> <<>>]
  ELSE IF /\ Len(s) = n + Len(TimePattern)
          /\ MatchesPattern(SubSeq(s, 1, n), DatePattern)
          /\ MatchesPattern(SubSeq(s, n + 1, Len(s)), TimePattern)
    THEN [matched |-> TRUE, g1 |-> SubSeq(s, 1, n), g2 |-> SubSeq(s, n + 1, Len(s))]
  ELSE NoMatch

DateMatch(s) == DateMatchAt(s, Len(DatePattern))

\* ------------------------------------------------------------------------
\* The response object (node:http ServerResponse) and http-responders
\* ------------------------------------------------------------------------

HeaderNames == {"cache-control", "location", "content-type"}

\* a fresh response: status 200, no header set, not ended
NewResponse ==
  [statusCode |-> 200, headers |-> [h \in HeaderNames |-> <<>>],
   headersSent |-> FALSE, ended |-> 0, body |-> ""]

\* res.setHeader(name, value); a header holds <<>> or <<value>>
setHeader(res, name, value) == [res EXCEPT !.headers[name] = <<value>>]

\* res.writeHead(status)
writeHead(res, status) == [res EXCEPT !.statusCode = status, !.headersSent = TRUE]

\* res.end(body): `ended` counts the calls, the first one fixes the body
end(res, body) ==
  [res EXCEPT !.ended = @ + 1, !.headersSent = TRUE,
              !.body = IF res.ended = 0 THEN body ELSE @]

\* json(res, stats) of http-responders
json(res, stats) == end(setHeader(res, "content-type", "application/json"), stats)

\* the value of a header, "" when it is not set
HeaderOf(res, name) == IF res.headers[name] = <<>> THEN "" ELSE res.headers[name][1]

\* ------------------------------------------------------------------------
\* lib/handler.js
\* ------------------------------------------------------------------------

\* !value for a query parameter: null and the empty string are falsy
Falsy(v) == v = Absent \/ v = <<>>

NoErr == [name |-> "", statusCode |-> 0, message |-> ""]
NoFilter == [from |-> <<>>, to |-> <<>>]
NoCall == [fn |-> "", filter |-> NoFilter]

FromFormatMessage == "\"from\" must have format YYYY-MM-DD or YYYY-MM-DDThh:mm:ss.sssZ"
ToFormatMessage == "\"to\" must have format YYYY-MM-DD or YYYY-MM-DDThh:mm:ss.sssZ"

\* the error assert(value, status, message) of http-assert throws
HttpError(status, message) ==
  [name |-> "BadRequestError", statusCode |-> status, message |-> message]

\* what the rejected promise of a failed pgPool.query carries
QueryError == [name |-> "Error", statusCode |-> 0, message |-> "query failed"]

\* the rows a successful query resolves to (their content is not modelled)
Rows == "[rows]"

\* how the synchronous part of an async function ends
Returned(res) == [res |-> res, outcome |-> "return", err |-> NoErr, call |-> NoCall]
Thrown(res, err) == [res |-> res, outcome |-> "throw", err |-> err, call |-> NoCall]
Awaiting(res, fn, filter) ==
  [res |-> res, outcome |-> "await", err |-> NoErr, call |-> [fn |-> fn, filter |-> filter]]

\* the location as it would be with the two values swapped
LocationOfSwapped(pathname, from, to) ==
  [pathname |-> pathname, search |-> SerializeFromTo(to, from)]

\* `${pathname}?${new URLSearchParams({ from, to })}`
LocationOf(pathname, from, to) ==
  [pathname |-> pathname, search |-> SerializeFromTo(from, to)]

\* lines 116-119 as they would be without the assignment of line 117
DefaultFromKeepsEmpty(from, to, shouldRedirect) ==
  [from |-> IF Falsy(from) THEN <<>> ELSE from, to |-> to,
   shouldRedirect |-> shouldRedirect \/ Falsy(from)]

\* lines 116-119: the default value of "from" is the value "to" has by then
DefaultFrom(from, to, shouldRedirect) ==
  [from |-> IF Falsy(from) THEN to ELSE from, to |-> to,
   shouldRedirect |-> shouldRedirect \/ Falsy(from)]

\* the defaults as they would be if a missing "from" were today
DefaultParamsFromToday(from, to, t) ==
  [from |-> IF Falsy(from) THEN today(t) ELSE from,
   to |-> IF Falsy(to) THEN today(t) ELSE to,
   shouldRedirect |-> Falsy(to) \/ Falsy(from)]

\* lines 106-119: the default values of "to" and "from"
DefaultParams(from, to, t) ==
  DefaultFrom(from, IF Falsy(to) THEN today(t) ELSE to, Falsy(to))

\* lines 121-125: the redirect to the URL with the default values filled in
RedirectFound(pathname, from, to, res) ==
  LET r1 == setHeader(res, "cache-control", "public, max-age=" \o ToString(600))
      r2 == setHeader(r1, "location", LocationOf(pathname, from, to))
  IN Returned(end(writeHead(r2, 302), ""))

\* the 301 as it would be with the cache-control of the 302
RedirectMovedTenMinutes(pathname, from, to, res) ==
  Returned(end(writeHead(
    setHeader(setHeader(res, "cache-control", "public, max-age=" \o ToString(600)),
              "location", [pathname |-> pathname, search |-> SerializeFromTo(from, to)]),
    301), ""))

\* lines 145-149: the redirect to the URL with the time trimmed
RedirectMoved(pathname, from, to, res) ==
  LET r1 == setHeader(res, "cache-control", "public, max-age=" \o ToString(24 * 3600))
      r2 == setHeader(r1, "location", LocationOf(pathname, from, to))
  IN Returned(end(writeHead(r2, 301), ""))

\* lines 131-142 as they would be without line 140, `to = matchTo[1]`
TrimMatchedKeepsTo(from, to, matchFrom, matchTo) ==
  IF ~matchFrom.matched
    THEN [err |-> HttpError(400, FromFormatMessage), from |-> from, to |-> to,
          shouldRedirect |-> FALSE]
  ELSE IF ~matchTo.matched
    THEN [err |-> HttpError(400, ToFormatMessage), from |-> from, to |-> to,
          shouldRedirect |-> FALSE]
  ELSE [err |-> NoErr,
        from |-> IF matchFrom.g2 # <<>> THEN matchFrom.g1 ELSE from,
        to |-> to,
        shouldRedirect |-> matchFrom.g2 # <<>> \/ matchTo.g2 # <<>>]

\* lines 131-142, given the two matches: the asserts and the trimming
TrimMatched(from, to, matchFrom, matchTo) ==
  IF ~matchFrom.matched
    THEN [err |-> HttpError(400, FromFormatMessage), from |-> from, to |-> to,
          shouldRedirect |-> FALSE]
  ELSE IF ~matchTo.matched
    THEN [err |-> HttpError(400, ToFormatMessage), from |-> from, to |-> to,
          shouldRedirect |-> FALSE]
  ELSE [err |-> NoErr,
        from |-> IF matchFrom.g2 # <<>> THEN matchFrom.g1 ELSE from,
        to |-> IF matchTo.g2 # <<>> THEN matchTo.g1 ELSE to,
        shouldRedirect |-> matchFrom.g2 # <<>> \/ matchTo.g2 # <<>>]

\* lines 130-142: validation and trimming of one parameter after the other
TrimParams(from, to) == TrimMatched(from, to, DateMatch(from), DateMatch(to))

\* lines 144-154 as they would be without the `return` of line 149
RedirectOrFetchFallsThrough(pathname, v, res, fetchStatsFn) ==
  IF v.err # NoErr THEN Thrown(res, v.err)
  ELSE Awaiting(IF v.shouldRedirect
                  THEN end(writeHead(
                         setHeader(setHeader(res, "cache-control", "public, max-age=86400"),
                                   "location",
                                   [pathname |-> pathname,
                                    search |-> SerializeFromTo(v.from, v.to)]),
                         301), "")
                  ELSE res,
                fetchStatsFn, [from |-> v.from, to |-> v.to])

\* lines 144-154 as they would be without the redirect of lines 144-150
RedirectOrFetchServesTrimmed(pathname, v, res, fetchStatsFn) ==
  IF v.err # NoErr THEN Thrown(res, v.err)
  ELSE Awaiting(res, fetchStatsFn, [from |-> v.from, to |-> v.to])

\* lines 144-154 as they would be with the cache-control set ahead of the await
RedirectOrFetchCachesEarly(pathname, v, res, fetchStatsFn) ==
  IF v.err # NoErr THEN Thrown(res, v.err)
  ELSE IF v.shouldRedirect THEN RedirectMoved(pathname, v.from, v.to, res)
  ELSE Awaiting(setHeader(res, "cache-control", "public, max-age=600"),
                fetchStatsFn, [from |-> v.from, to |-> v.to])

\* lines 144-154, given the outcome v of lines 130-142
RedirectOrFetch(pathname, v, res, fetchStatsFn) ==
  IF v.err # NoErr THEN Thrown(res, v.err)
  ELSE IF v.shouldRedirect THEN RedirectMoved(pathname, v.from, v.to, res)
  ELSE Awaiting(res, fetchStatsFn, [from |-> v.from, to |-> v.to])

\* lines 120-154 as they would be with the asserts ahead of the 302
RedirectOrValidateFirst(pathname, d, res, fetchStatsFn) ==
  IF TrimParams(d.from, d.to).err # NoErr THEN Thrown(res, TrimParams(d.from, d.to).err)
  ELSE IF d.shouldRedirect THEN RedirectFound(pathname, d.from, d.to, res)
  ELSE RedirectOrFetch(pathname, TrimParams(d.from, d.to), res, fetchStatsFn)

\* lines 120-154, given the outcome d of lines 106-119
RedirectOrValidate(pathname, d, res, fetchStatsFn) ==
  IF d.shouldRedirect THEN RedirectFound(pathname, d.from, d.to, res)
  ELSE RedirectOrFetch(pathname, TrimParams(d.from, d.to), res, fetchStatsFn)

\* getStatsWithFilterAndCaching up to its await, when the clock reads t
getStatsWithFilterAndCaching(pathname, search, res, fetchStatsFn, t) ==
  RedirectOrValidate(
    pathname,
    DefaultParams(SearchParamsGet(search, S_from), SearchParamsGet(search, S_to), t),
    res, fetchStatsFn)

\* the cache policy as it would be with `>` in place of `>=` on line 167
setCacheControlStrictBoundary(res, filter, t) ==
  IF StrLess(getDayAsISOString(t - MinutesPerHour), filter.to)
    THEN setHeader(res, "cache-control", "public, max-age=600")
    ELSE setHeader(res, "cache-control",
                   "public, max-age=" \o ToString(365 * 24 * 3600) \o ", immutable")

\* the cache policy as it would be if filter.to were compared with today()
setCacheControlWithoutGrace(res, filter, t) ==
  IF StrGE(filter.to, getDayAsISOString(t))
    THEN setHeader(res, "cache-control", "public, max-age=600")
    ELSE setHeader(res, "cache-control",
                   "public, max-age=" \o ToString(365 * 24 * 3600) \o ", immutable")

\* setCacheControlForStatsResponse, when the clock reads t
setCacheControlForStatsResponse(res, filter, t) ==
  LET boundary == getDayAsISOString(t - MinutesPerHour)
  IN IF StrGE(filter.to, boundary)
       THEN setHeader(res, "cache-control", "public, max-age=600")
       ELSE setHeader(res, "cache-control",
                      "public, max-age=" \o ToString(365 * 24 * 3600) \o ", immutable")

\* lines 155-156 as they would be without line 155
SendStatsWithoutCacheControl(res, filter, stats, t) == json(res, stats)

\* lines 155-156: getStatsWithFilterAndCaching after its await
SendStats(res, filter, stats, t) == json(setCacheControlForStatsResponse(res, filter, t), stats)

\* notFound as it would be without res.end
notFoundUnended(res) == [res EXCEPT !.statusCode = 404]

notFound(res) == end([res EXCEPT !.statusCode = 404], "Not Found")

\* pathname.split('/').filter(Boolean)
Segs(pathname) == SelectSeq(pathname, LAMBDA p : p # "")

FetchFns == {"fetchRetrievalSuccessRate", "fetchDailyParticipants", "fetchMonthlyParticipants"}

\* the if-else chain as it would be without its tests of req.method
RouteOfAnyMethod(method, segs) ==
  IF Len(segs) = 1 /\ segs[1] = "retrieval-success-rate"
    THEN "fetchRetrievalSuccessRate"
  ELSE IF Len(segs) = 2 /\ segs[1] = "participants" /\ segs[2] = "daily"
    THEN "fetchDailyParticipants"
  ELSE IF Len(segs) = 2 /\ segs[1] = "participants" /\ segs[2] = "monthly"
    THEN "fetchMonthlyParticipants"
  ELSE IF Len(segs) = 0
    THEN "healthCheck"
  ELSE "notFound"

\* the branch of handler's if-else chain (lines 42-68) a request takes: the
\* fetch function of a stats route, "healthCheck" or "notFound"
RouteOf(method, segs) ==
  IF method = "GET" /\ Len(segs) = 1 /\ segs[1] = "retrieval-success-rate"
    THEN "fetchRetrievalSuccessRate"
  ELSE IF method = "GET" /\ Len(segs) = 2 /\ segs[1] = "participants" /\ segs[2] = "daily"
    THEN "fetchDailyParticipants"
  ELSE IF method = "GET" /\ Len(segs) = 2 /\ segs[1] = "participants" /\ segs[2] = "monthly"
    THEN "fetchMonthlyParticipants"
  ELSE IF method = "GET" /\ Len(segs) = 0
    THEN "healthCheck"
  ELSE "notFound"

\* the body of the branch `route`
RunRoute(route, req, res, t) ==
  IF route \in FetchFns
    THEN getStatsWithFilterAndCaching(req.pathname, req.search, res, route, t)
  ELSE IF route = "healthCheck" THEN Returned(end(res, "OK"))
  ELSE Returned(notFound(res))

\* handler up to its first await, when the clock reads t
handler(req, res, t) == RunRoute(RouteOf(req.method, Segs(req.pathname)), req, res, t)

\* the response errorHandler would write if its last branch sent err.message
ErrorResponseExposesMessage(res, err) ==
  IF err.name = "SyntaxError"
    THEN end([res EXCEPT !.statusCode = 400], "Invalid JSON Body")
  ELSE IF err.statusCode # 0
    THEN end([res EXCEPT !.statusCode = err.statusCode], err.message)
  ELSE end([res EXCEPT !.statusCode = 500], err.message)

\* lines 72-82: the response errorHandler writes
ErrorResponse(res, err) ==
  IF err.name = "SyntaxError"
    THEN end([res EXCEPT !.statusCode = 400], "Invalid JSON Body")
  ELSE IF err.statusCode # 0
    THEN end([res EXCEPT !.statusCode = err.statusCode], err.message)
  ELSE end([res EXCEPT !.statusCode = 500], "Internal Server Error")

\* the reports of an errorHandler that captures every error (no test on line 84)
ErrorReportsEveryError(res, err) ==
  [res |-> res,
   logged |-> err.name # "SyntaxError" /\ err.statusCode = 0,
   captured |-> TRUE]

\* lines 79 and 84-86: whether logger.error and Sentry.captureException are called
ErrorReports(res, err) ==
  [res |-> res,
   logged |-> err.name # "SyntaxError" /\ err.statusCode = 0,
   captured |-> res.statusCode >= 500]

\* errorHandler
errorHandler(res, err) == ErrorReports(ErrorResponse(res, err), err)

\* ------------------------------------------------------------------------
\* Requests the clients send
\* ------------------------------------------------------------------------

Methods == {"GET", "POST"}

P_root == <<"", "">>
P_retrievalSuccessRate == <<"", "retrieval-success-rate">>
P_participantsDaily == <<"", "participants", "daily">>
P_participantsMonthly == <<"", "participants", "monthly">>
P_minersSummary == <<"", "miners", "retrieval-success-rate", "summary">>
P_unknown == <<"", "unknown-path">>
P_doubleSlash == <<"", "", "path-not-found">>

\* the paths the tests request with a date range
RangePaths ==
  {P_retrievalSuccessRate, P_participantsDaily, P_participantsMonthly, P_minersSummary}

Paths == RangePaths \cup {P_root, P_unknown, P_doubleSlash}

\* parameter values as they stand in the URL
W_day1 == <<"2", "0", "2", "3", "-", "1", "2", "-", "3", "1">>
W_day2 == <<"2", "0", "2", "4", "-", "0", "1", "-", "0", "1">>
W_time == W_day1 \o <<"T", "1", "3", ":", "4", "4", ":", "4", "4", ".", "2", "8", "9", "Z">>
W_slashes == <<"2", "0", "2", "4", "/", "0", "1", "/", "0", "1">>
W_words == <<"J", "a", "n", "+", "1", "+", "2", "0", "2", "4">>
W_noMillis == W_day1 \o <<"T", "1", "3", ":", "4", "4", ":", "4", "4", "Z">>

WireValues == {Absent, <<>>, W_day1, W_day2, W_time, W_slashes, W_words, W_noMillis}

\* the query string with the given values, a parameter left out when Absent
BuildSearch(from, to) ==
  LET f == IF from = Absent THEN <<>> ELSE S_from \o <<"=">> \o from
      t == IF to = Absent THEN <<>> ELSE S_to \o <<"=">> \o to
  IN IF f # <<>> /\ t # <<>> THEN f \o <<"&">> \o t ELSE f \o t

Searches == {BuildSearch(f, t) : f \in WireValues, t \in WireValues}

\* requests with a query string go to the paths that take a date range
Requests ==
  {q \in [method : Methods, pathname : Paths, search : Searches] :
     q.search # <<>> => q.method = "GET" /\ q.pathname \in RangePaths}

NoReq == [method |-> "", pathname |-> <<>>, search |-> <<>>]

\* origin[r] of a slot that handles no request
NoOrigin == [search |-> <<>>, at |-> 0]

\* ------------------------------------------------------------------------
\* State
\* ------------------------------------------------------------------------

Reqs == 1..NumReqs

VARIABLES
  now,         \* the clock: minutes since the epoch
  req,         \* req[r]: the request slot r handles, NoReq when idle
  pc,          \* pc[r]: idle, awaiting, rejected, fulfilled, done
  res,         \* res[r]: the response object
  start,       \* start[r]: `start` of createHandler, the clock at arrival
  queries,     \* queries[r]: the calls of fetchStatsFn, in order
  err,         \* err[r]: what the promise of handler() was rejected with
  errorLog,    \* errorLog[r]: calls of logger.error
  sentry,      \* sentry[r]: calls of Sentry.captureException
  requestLog,  \* requestLog[r]: calls of logger.request
  chain,       \* chain[r]: statuses of the redirects the client followed to get here
  origin       \* origin[r]: history kept under SpecTraced, the query string the
               \* client first sent and the clock at that time

vars ==
  <<now, req, pc, res, start, queries, err, errorLog, sentry, requestLog, chain, origin>>

Init ==
  /\ now = ClockStart
  /\ req = [r \in Reqs |-> NoReq]
  /\ pc = [r \in Reqs |-> "idle"]
  /\ res = [r \in Reqs |-> NewResponse]
  /\ start = [r \in Reqs |-> 0]
  /\ queries = [r \in Reqs |-> <<>>]
  /\ err = [r \in Reqs |-> NoErr]
  /\ errorLog = [r \in Reqs |-> 0]
  /\ sentry = [r \in Reqs |-> 0]
  /\ requestLog = [r \in Reqs |-> 0]
  /\ chain = [r \in Reqs |-> <<>>]
  /\ origin = [r \in Reqs |-> NoOrigin]

\* the clock advances
Tick ==
  /\ now < ClockStart + MaxTicks * TickMinutes
  /\ now' = now + TickMinutes
  /\ UNCHANGED <<req, pc, res, start, queries, err, errorLog, sentry, requestLog,
               chain, origin>>

\* the callback of createHandler, lines 22-26: it runs handler() up to its
\* first await, or to its end
Arrive(r, q, via) ==
  \E h \in {handler(q, NewResponse, now)} :
     /\ req' = [req EXCEPT ![r] = q]
     /\ start' = [start EXCEPT ![r] = now]
     /\ requestLog' = [requestLog EXCEPT ![r] = 1]
     /\ res' = [res EXCEPT ![r] = h.res]
     /\ queries' = [queries EXCEPT ![r] = IF h.outcome = "await" THEN <<h.call>> ELSE <<>>]
     /\ err' = [err EXCEPT ![r] = h.err]
     /\ pc' = [pc EXCEPT ![r] = CASE h.outcome = "await" -> "awaiting"
                                  [] h.outcome = "throw" -> "rejected"
                                  [] h.outcome = "return" -> "fulfilled"]
     /\ errorLog' = [errorLog EXCEPT ![r] = 0]
     /\ sentry' = [sentry EXCEPT ![r] = 0]
     /\ chain' = [chain EXCEPT ![r] = via]
     /\ UNCHANGED now

\* a client sends a request; one request is handled at a time
Receive(r) ==
  /\ \A o \in Reqs : pc[o] = "idle"
  /\ \E q \in Requests : Arrive(r, q, <<>>)
  /\ UNCHANGED origin

\* the same, with a record of what the client sent and when
ReceiveTraced(r) ==
  /\ \A o \in Reqs : pc[o] = "idle"
  /\ \E q \in Requests :
        /\ Arrive(r, q, <<>>)
        /\ origin' = [origin EXCEPT ![r] = [search |-> q.search, at |-> now]]

\* lines 154-156 as they would run if `filter` were one variable of the
\* module, overwritten by whichever request called the query function last
QueryResolvesSharedFilter(r) ==
  /\ pc[r] = "awaiting"
  /\ \E o \in Reqs :
        /\ pc[o] = "awaiting"
        /\ \A p \in Reqs : pc[p] = "awaiting" => start[p] <= start[o]
        /\ res' = [res EXCEPT ![r] = SendStats(@, queries[o][Len(queries[o])].filter, Rows, now)]
  /\ pc' = [pc EXCEPT ![r] = "fulfilled"]
  /\ UNCHANGED <<now, req, start, queries, err, errorLog, sentry, requestLog,
               chain, origin>>

\* the awaited query resolves: lines 154-156
QueryResolves(r) ==
  /\ pc[r] = "awaiting"
  /\ res' = [res EXCEPT ![r] = SendStats(@, queries[r][Len(queries[r])].filter, Rows, now)]
  /\ pc' = [pc EXCEPT ![r] = "fulfilled"]
  /\ UNCHANGED <<now, req, start, queries, err, errorLog, sentry, requestLog,
               chain, origin>>

\* the awaited query rejects: the promise of handler() rejects with its error
QueryRejects(r) ==
  /\ pc[r] = "awaiting"
  /\ err' = [err EXCEPT ![r] = QueryError]
  /\ pc' = [pc EXCEPT ![r] = "rejected"]
  /\ UNCHANGED <<now, req, res, start, queries, errorLog, sentry, requestLog,
               chain, origin>>

\* line 26: .catch(err => errorHandler(res, err, logger))
Catch(r) ==
  /\ pc[r] = "rejected"
  /\ \E e \in {errorHandler(res[r], err[r])} :
        /\ res' = [res EXCEPT ![r] = e.res]
        /\ errorLog' = [errorLog EXCEPT ![r] = @ + (IF e.logged THEN 1 ELSE 0)]
        /\ sentry' = [sentry EXCEPT ![r] = @ + (IF e.captured THEN 1 ELSE 0)]
  /\ pc' = [pc EXCEPT ![r] = "fulfilled"]
  /\ UNCHANGED <<now, req, start, queries, err, requestLog,
               chain, origin>>

\* lines 27-29: .then(() => logger.request(...))
Then(r) ==
  /\ pc[r] = "fulfilled"
  /\ requestLog' = [requestLog EXCEPT ![r] = @ + 1]
  /\ pc' = [pc EXCEPT ![r] = "done"]
  /\ UNCHANGED <<now, req, res, start, queries, err, errorLog, sentry,
               chain, origin>>

\* the client follows a redirect: it requests the location it was given
Follow(r) ==
  /\ pc[r] = "done"
  /\ res[r].statusCode \in {301, 302}
  /\ res[r].headers["location"] # <<>>
  /\ Len(chain[r]) < MaxFollows
  /\ LET loc == res[r].headers["location"][1]
     IN Arrive(r, [method |-> "GET", pathname |-> loc.pathname, search |-> loc.search],
               Append(chain[r], res[r].statusCode))
  /\ UNCHANGED origin

\* the exchange is over, the slot is free again
Close(r) ==
  /\ pc[r] = "done"
  /\ req' = [req EXCEPT ![r] = NoReq]
  /\ pc' = [pc EXCEPT ![r] = "idle"]
  /\ res' = [res EXCEPT ![r] = NewResponse]
  /\ start' = [start EXCEPT ![r] = 0]
  /\ queries' = [queries EXCEPT ![r] = <<>>]
  /\ err' = [err EXCEPT ![r] = NoErr]
  /\ errorLog' = [errorLog EXCEPT ![r] = 0]
  /\ sentry' = [sentry EXCEPT ![r] = 0]
  /\ requestLog' = [requestLog EXCEPT ![r] = 0]
  /\ chain' = [chain EXCEPT ![r] = <<>>]
  /\ origin' = [origin EXCEPT ![r] = NoOrigin]
  /\ UNCHANGED now

Next ==
  \/ Tick
  \/ \E r \in Reqs : Receive(r)
  \/ \E r \in Reqs : QueryResolves(r)
  \/ \E r \in Reqs : QueryRejects(r)
  \/ \E r \in Reqs : Catch(r)
  \/ \E r \in Reqs : Then(r)
  \/ \E r \in Reqs : Follow(r)
  \/ \E r \in Reqs : Close(r)

Spec == Init /\ [][Next]_vars

\* the same program, observed with the history of each exchange
NextTraced ==
  \/ Tick
  \/ \E r \in Reqs : ReceiveTraced(r)
  \/ \E r \in Reqs : QueryResolves(r)
  \/ \E r \in Reqs : QueryRejects(r)
  \/ \E r \in Reqs : Catch(r)
  \/ \E r \in Reqs : Then(r)
  \/ \E r \in Reqs : Follow(r)
  \/ \E r \in Reqs : Close(r)

SpecTraced == Init /\ [][NextTraced]_vars

\* the requests sent while others are in flight: two canonical ranges, a
\* request without parameters and one with a malformed date
ConcurrentRequests ==
  {[method |-> "GET", pathname |-> P_retrievalSuccessRate, search |-> s] :
     s \in {BuildSearch(W_day1, W_day1), BuildSearch(W_day2, W_day2),
            BuildSearch(Absent, Absent), BuildSearch(W_slashes, W_day1)}}

\* these requests arrive in the last ticks of the clock window, around the
\* end of the hour of grace of 2023-12-31
BurstStart == ClockStart + (MaxTicks - 2) * TickMinutes

\* a client sends a request while other requests are awaiting their queries:
\* the callback of createHandler runs whenever the event loop is free
ReceiveConcurrent(r) ==
  /\ pc[r] = "idle"
  /\ now >= BurstStart
  /\ \E q \in ConcurrentRequests : Arrive(r, q, <<>>)
  /\ UNCHANGED origin

\* the same program with its requests interleaved at their awaits
NextConcurrent ==
  \/ Tick
  \/ \E r \in Reqs : ReceiveConcurrent(r)
  \/ \E r \in Reqs : QueryResolves(r)
  \/ \E r \in Reqs : QueryRejects(r)
  \/ \E r \in Reqs : Catch(r)
  \/ \E r \in Reqs : Then(r)
  \/ \E r \in Reqs : Follow(r)
  \/ \E r \in Reqs : Close(r)

SpecConcurrent == Init /\ [][NextConcurrent]_vars

\* ------------------------------------------------------------------------
\* Vocabulary of the properties
\* ------------------------------------------------------------------------

ShortPublic == "public, max-age=600"
LongImmutable == "public, max-age=31536000, immutable"
OneDayPublic == "public, max-age=86400"

\* the response of request r has been written and its promise chain has settled
Responded(r) == pc[r] \in {"fulfilled", "done"}

\* the values of "from" and "to" in the URL of request r, decoded
FromOf(r) == SearchParamsGet(req[r].search, S_from)
ToOf(r) == SearchParamsGet(req[r].search, S_to)

\* a parameter counts as supplied when it is in the URL with a value;
\* the handler takes a missing and an empty parameter alike (`!to`)
Supplied(v) == v # Absent /\ v # <<>>

\* YYYY-MM-DD
IsBareDate(v) == MatchesPattern(v, DatePattern)

\* YYYY-MM-DDThh:mm:ss.sssZ
IsTimestamp(v) ==
  /\ Len(v) = Len(DatePattern) + Len(TimePattern)
  /\ MatchesPattern(SubSeq(v, 1, Len(DatePattern)), DatePattern)
  /\ MatchesPattern(SubSeq(v, Len(DatePattern) + 1, Len(v)), TimePattern)

Accepted(v) == IsBareDate(v) \/ IsTimestamp(v)

\* the date part of an accepted value
DateOnly(v) == IF IsTimestamp(v) THEN SubSeq(v, 1, Len(DatePattern)) ELSE v

\* request r is a GET of one of the three routes handler() serves statistics on
OnStatsEndpoint(r) ==
  /\ req[r].method = "GET"
  /\ Segs(req[r].pathname) \in
       {<<"retrieval-success-rate">>, <<"participants", "daily">>, <<"participants", "monthly">>}

\* the UTC calendar date at instant t of the model's clock window, which
\* begins on 2023-12-31 and passes midnight once (2024-01-01 is day 19723)
CalendarDay(t) == IF t < 19723 * MinutesPerDay THEN W_day1 ELSE W_day2

CacheControlOf(r) == HeaderOf(res[r], "cache-control")
HasLocation(r) == res[r].headers["location"] # <<>>
LocationPath(r) == res[r].headers["location"][1].pathname
LocationSearch(r) == res[r].headers["location"][1].search

\* the query string from=<f>&to=<t> of two dates, which need no escaping
PlainSearch(f, t) == S_from \o <<"=">> \o f \o <<"&">> \o S_to \o <<"=">> \o t

\* ------------------------------------------------------------------------
\* Properties
\* ------------------------------------------------------------------------

\* C1: when the awaited query of a canonical range resolves, the response is
\* a 200 whose cache-control is `public, max-age=600` if to >= the date of
\* (now - 1h) and `public, max-age=31536000, immutable` if to is earlier; and
\* a response that carries data never has another cache-control value.
C1_DataResponseCacheControl ==
  /\ [](\A r \in Reqs :
          Responded(r) /\ res[r].body = Rows =>
            /\ res[r].statusCode = 200
            /\ CacheControlOf(r) \in {ShortPublic, LongImmutable})
  /\ [][\A r \in Reqs :
          pc[r] = "awaiting" /\ pc'[r] = "fulfilled" =>
            /\ IsBareDate(FromOf(r)) /\ IsBareDate(ToOf(r))
            /\ res'[r].statusCode = 200
            /\ res'[r].body = Rows
            /\ HeaderOf(res'[r], "cache-control") =
                 IF StrGE(ToOf(r), CalendarDay(now - MinutesPerHour))
                   THEN ShortPublic ELSE LongImmutable]_vars

\* a range that ends yesterday is served within the hour after midnight: it
\* is still cached for ten minutes only
C1_Witness ==
  \E r \in Reqs :
    /\ Responded(r) /\ res[r].body = Rows
    /\ ToOf(r) = W_day1 /\ CalendarDay(start[r]) = W_day2
    /\ CacheControlOf(r) = ShortPublic

\* C2, as stated: every 301 redirect has `public, max-age=31536000, immutable`
C2_TrimRedirectIsLongImmutable ==
  \A r \in Reqs :
    Responded(r) /\ res[r].statusCode = 301 => CacheControlOf(r) = LongImmutable

\* C2, amended: every 301 redirect has cache-control `public, max-age=86400`
\* (one day, not marked immutable)
C2_TrimRedirectIsOneDay ==
  \A r \in Reqs :
    Responded(r) /\ res[r].statusCode = 301 =>
      CacheControlOf(r) = OneDayPublic /\ HasLocation(r)

C2_Witness ==
  \E r \in Reqs :
    /\ Responded(r) /\ res[r].statusCode = 301
    /\ IsTimestamp(FromOf(r)) /\ IsTimestamp(ToOf(r))

\* C3, as stated: the response to a request for the location of a redirect
\* is never a redirect
C3_RedirectTargetNeverRedirects ==
  \A r \in Reqs :
    Responded(r) /\ chain[r] # <<>> => res[r].statusCode \notin {301, 302}

\* C3, amended: the response to a request for the location of a 301 is never
\* a redirect, and the response to a request for the location of a 302 is
\* never a 302 (it is a 301 when a supplied value carried the time)
C3_RedirectTargetNeverRedirectsAlike ==
  \A r \in Reqs :
    Responded(r) /\ chain[r] # <<>> =>
      /\ res[r].statusCode # 302
      /\ chain[r][Len(chain[r])] = 301 => res[r].statusCode # 301

\* the location of a 301 was requested and answered
C3_Witness ==
  \E r \in Reqs :
    /\ Responded(r) /\ chain[r] # <<>> /\ chain[r][Len(chain[r])] = 301
    /\ res[r].statusCode = 200

\* C4, as stated: a from or to value that matches neither pattern gets a 400
\* that names the parameter
C4_MalformedValueIsBadRequest ==
  \A r \in Reqs :
    /\ Responded(r) /\ OnStatsEndpoint(r)
    /\ \/ Supplied(FromOf(r)) /\ ~Accepted(FromOf(r))
       \/ Supplied(ToOf(r)) /\ ~Accepted(ToOf(r))
    => /\ res[r].statusCode = 400
       /\ res[r].body \in {FromFormatMessage, ToFormatMessage}

\* C4, amended: when from and to are both supplied and one of them matches
\* neither pattern, the response is a 400 whose message names the malformed
\* parameter ("from" when both are malformed); no query is made and no
\* location or cache-control is sent
C4_MalformedValueOfSuppliedPairIsBadRequest ==
  \A r \in Reqs :
    /\ Responded(r) /\ OnStatsEndpoint(r)
    /\ Supplied(FromOf(r)) /\ Supplied(ToOf(r))
    /\ ~Accepted(FromOf(r)) \/ ~Accepted(ToOf(r))
    => /\ res[r].statusCode = 400
       /\ res[r].body = IF ~Accepted(FromOf(r)) THEN FromFormatMessage ELSE ToFormatMessage
       /\ queries[r] = <<>>
       /\ ~HasLocation(r)
       /\ CacheControlOf(r) = ""

\* "from" is fine and "to" just misses the timestamp pattern
C4_Witness ==
  \E r \in Reqs :
    /\ Responded(r) /\ OnStatsEndpoint(r)
    /\ FromOf(r) = W_day1 /\ ToOf(r) = W_noMillis
    /\ res[r].statusCode = 400 /\ res[r].body = ToFormatMessage

\* C5: GET /miners/retrieval-success-rate/summary with bare dates calls the
\* per-miner summary query and is not answered 404
C5_MinersSummaryIsRouted ==
  \A r \in Reqs :
    /\ Responded(r)
    /\ req[r].method = "GET" /\ req[r].pathname = P_minersSummary
    /\ IsBareDate(FromOf(r)) /\ IsBareDate(ToOf(r))
    => /\ res[r].statusCode # 404
       /\ queries[r] # <<>>
       /\ queries[r][1].fn = "fetchMinersRSRSummary"

\* C6: a request with neither from nor to is answered 302 with location
\* <pathname>?from=<today>&to=<today>, today being the UTC date on arrival,
\* and cache-control `public, max-age=600`
C6_NoParamsRedirectToToday ==
  \A r \in Reqs :
    /\ Responded(r) /\ OnStatsEndpoint(r)
    /\ ~Supplied(FromOf(r)) /\ ~Supplied(ToOf(r))
    => /\ res[r].statusCode = 302
       /\ HasLocation(r)
       /\ LocationPath(r) = req[r].pathname
       /\ LocationSearch(r) = PlainSearch(CalendarDay(start[r]), CalendarDay(start[r]))
       /\ CacheControlOf(r) = ShortPublic

\* the request arrives after midnight, within the hour of grace
C6_Witness ==
  \E r \in Reqs :
    /\ Responded(r) /\ OnStatsEndpoint(r)
    /\ FromOf(r) = Absent /\ ToOf(r) = Absent
    /\ CalendarDay(start[r]) = W_day2 /\ CalendarDay(start[r] - MinutesPerHour) = W_day1
    /\ res[r].statusCode = 302

\* C7: a request with to and without from is answered 302 with a location
\* in which from and to both are the supplied to
C7_MissingFromDefaultsToSuppliedTo ==
  \A r \in Reqs :
    /\ Responded(r) /\ OnStatsEndpoint(r)
    /\ ~Supplied(FromOf(r)) /\ Supplied(ToOf(r))
    => /\ res[r].statusCode = 302
       /\ HasLocation(r)
       /\ LocationPath(r) = req[r].pathname
       /\ SearchParamsGet(LocationSearch(r), S_from) = ToOf(r)
       /\ SearchParamsGet(LocationSearch(r), S_to) = ToOf(r)

\* the supplied to is not today
C7_Witness ==
  \E r \in Reqs :
    /\ Responded(r) /\ OnStatsEndpoint(r)
    /\ FromOf(r) = Absent /\ ToOf(r) = W_day2 /\ CalendarDay(start[r]) = W_day1
    /\ res[r].statusCode = 302

\* C8: when both values are supplied in an accepted format and one of them
\* carries the time, the response is 301 with location
\* <pathname>?from=<date of from>&to=<date of to>
C8_TimestampsAreTrimmed ==
  \A r \in Reqs :
    /\ Responded(r) /\ OnStatsEndpoint(r)
    /\ Accepted(FromOf(r)) /\ Accepted(ToOf(r))
    /\ IsTimestamp(FromOf(r)) \/ IsTimestamp(ToOf(r))
    => /\ res[r].statusCode = 301
       /\ HasLocation(r)
       /\ LocationPath(r) = req[r].pathname
       /\ LocationSearch(r) = PlainSearch(DateOnly(FromOf(r)), DateOnly(ToOf(r)))

\* only "to" carries the time
C8_Witness ==
  \E r \in Reqs :
    /\ Responded(r) /\ OnStatsEndpoint(r)
    /\ FromOf(r) = W_day2 /\ ToOf(r) = W_time
    /\ res[r].statusCode = 301

\* C9: fetchStatsFn is called at most once per request, only for a request
\* whose from and to were both supplied as bare dates, and never for a
\* request answered 302, 301 or 400
C9_QueryOnlyForCanonicalRange ==
  \A r \in Reqs :
    /\ Len(queries[r]) <= 1
    /\ queries[r] # <<>> =>
         /\ OnStatsEndpoint(r)
         /\ IsBareDate(FromOf(r)) /\ IsBareDate(ToOf(r))
         /\ queries[r][1].filter = [from |-> FromOf(r), to |-> ToOf(r)]
    /\ res[r].statusCode \in {301, 302, 400} => queries[r] = <<>>

\* a query is in flight
C9_Witness ==
  \E r \in Reqs : pc[r] = "awaiting" /\ Len(queries[r]) = 1 /\ res[r].ended = 0

\* C10: res.end is called exactly once per request: not before the promise
\* of handler() settles into a response, once when it has, never twice
C10_ExactlyOneResponse ==
  \A r \in Reqs :
    /\ res[r].ended <= 1
    /\ Responded(r) => res[r].ended = 1
    /\ pc[r] \in {"idle", "awaiting", "rejected"} => res[r].ended = 0

\* a query failure has been answered
C10_Witness ==
  \E r \in Reqs :
    /\ pc[r] = "done" /\ res[r].statusCode = 500 /\ res[r].ended = 1
    /\ requestLog[r] = 2

\* C11: every 302, 301 and 200 response of a stats endpoint carries a
\* cache-control header, and a response of a stats endpoint carries a location
\* header exactly when it is a 301 or a 302
C11_HeaderDiscipline ==
  \A r \in Reqs :
    Responded(r) /\ OnStatsEndpoint(r) =>
      /\ res[r].statusCode \in {200, 301, 302} => res[r].headers["cache-control"] # <<>>
      /\ HasLocation(r) <=> res[r].statusCode \in {301, 302}

\* a data response: cache-control and no location
C11_Witness ==
  \E r \in Reqs :
    /\ Responded(r) /\ OnStatsEndpoint(r)
    /\ res[r].statusCode = 200
    /\ CacheControlOf(r) = LongImmutable /\ ~HasLocation(r)

\* C12: when the query of a canonical range fails, the request is answered
\* with status 500 and the body "Internal Server Error", the error is logged
\* and reported to the error tracker once, and the query is not issued again
C12_QueryFailureIsInternalServerError ==
  \A r \in Reqs :
    /\ err[r] = QueryError => Len(queries[r]) = 1
    /\ Responded(r) /\ err[r] = QueryError =>
         /\ res[r].statusCode = 500
         /\ res[r].body = "Internal Server Error"
         /\ res[r].ended = 1
         /\ errorLog[r] = 1
         /\ sentry[r] = 1

\* a failed query has been answered
C12_Witness ==
  \E r \in Reqs :
    /\ pc[r] = "fulfilled" /\ err[r] = QueryError
    /\ res[r].statusCode = 500 /\ sentry[r] = 1
    /\ IsBareDate(FromOf(r)) /\ IsBareDate(ToOf(r))

\* the health check: a GET whose path has no segment
IsHealthCheck(r) == req[r].method = "GET" /\ Segs(req[r].pathname) = <<>>

\* C13: a request that is neither a GET of a stats route nor the health check
\* (paths are compared by their non-empty segments, line 40) is answered with
\* 404 "Not Found", also when its path starts with a double slash; no query
\* is executed for it and nothing is logged as an error or reported
C13_UnmatchedIsNotFound ==
  \A r \in Reqs :
    /\ pc[r] # "idle" /\ ~OnStatsEndpoint(r) /\ ~IsHealthCheck(r) =>
         /\ queries[r] = <<>>
         /\ pc[r] \notin {"awaiting", "rejected"}
    /\ Responded(r) /\ ~OnStatsEndpoint(r) /\ ~IsHealthCheck(r) =>
         /\ res[r].statusCode = 404
         /\ res[r].body = "Not Found"
         /\ res[r].ended = 1
         /\ errorLog[r] = 0
         /\ sentry[r] = 0

\* a path that starts with a double slash has been answered with 404
C13_Witness ==
  \E r \in Reqs :
    /\ Responded(r)
    /\ req[r].method = "GET" /\ req[r].pathname = P_doubleSlash
    /\ res[r].statusCode = 404 /\ res[r].body = "Not Found"

\* C14: a response with status 400 is neither logged as an error nor reported
\* to the error tracker, and whatever is reported has a status of 500 or more
C14_BadRequestIsNotReported ==
  \A r \in Reqs :
    /\ Responded(r) /\ res[r].statusCode = 400 => errorLog[r] = 0 /\ sentry[r] = 0
    /\ sentry[r] > 0 => res[r].statusCode >= 500

\* a malformed date has been answered with 400
C14_Witness ==
  \E r \in Reqs :
    /\ Responded(r) /\ res[r].statusCode = 400
    /\ err[r].name = "BadRequestError"
    /\ sentry[r] = 0 /\ errorLog[r] = 0

\* C15: a data response that carries the immutable directive belongs to a
\* range whose "to" was already earlier than the date of (now - 1h) when its
\* query was issued (start[r] is the instant of that call: the handler runs
\* from the arrival of the request to the call without a pause)
C15_ImmutableWasPastGraceAtQuery ==
  \A r \in Reqs :
    Responded(r) /\ res[r].body = Rows /\ CacheControlOf(r) = LongImmutable =>
      StrLess(ToOf(r), CalendarDay(start[r] - MinutesPerHour))

\* the statuses a client has seen for request r: those of the redirects it
\* followed, then the one of the response to its latest request
Trail(r) == chain[r] \o (IF Responded(r) THEN <<res[r].statusCode>> ELSE <<>>)

\* C16: a client that follows the redirects sees at most two of them before a
\* response that is none (200, 400 or 500), and never a 302 after a 301
C16_RedirectChainsTerminate ==
  \A r \in Reqs :
    /\ Len(SelectSeq(Trail(r), LAMBDA s : s \in {301, 302})) <= 2
    /\ \A i, j \in DOMAIN Trail(r) : i < j => ~(Trail(r)[i] = 301 /\ Trail(r)[j] = 302)
    /\ Responded(r) /\ chain[r] # <<>> /\ res[r].statusCode \notin {301, 302} =>
         res[r].statusCode \in {200, 400, 500}

\* a 302, then a 301, then the data
C16_Witness ==
  \E r \in Reqs :
    /\ Responded(r)
    /\ chain[r] = <<302, 301>>
    /\ res[r].statusCode = 200 /\ res[r].body = Rows

\* C17: a request of a stats endpoint that lacks "from" or "to" is answered
\* with 302, whatever the other parameter holds, and the parameter it does
\* supply stands in the location as it was sent; a 400 or a 301 is only ever
\* the answer to a request that supplies both
C17_DefaultingPrecedesValidation ==
  \A r \in Reqs :
    Responded(r) =>
      LET from == FromOf(r)
          to == ToOf(r)
      IN /\ OnStatsEndpoint(r) /\ ~(Supplied(from) /\ Supplied(to)) =>
              /\ res[r].statusCode = 302
              /\ HasLocation(r)
              /\ Supplied(from) => SearchParamsGet(LocationSearch(r), S_from) = from
              /\ Supplied(to) => SearchParamsGet(LocationSearch(r), S_to) = to
         /\ res[r].statusCode \in {400, 301} =>
              OnStatsEndpoint(r) /\ Supplied(from) /\ Supplied(to)

\* a malformed "from" sent without "to" is copied as it is
C17_Witness ==
  \E r \in Reqs :
    /\ Responded(r) /\ res[r].statusCode = 302
    /\ FromOf(r) = W_slashes /\ ToOf(r) = Absent
    /\ SearchParamsGet(LocationSearch(r), S_from) = W_slashes

\* C18: each time the query function is called, the "from" and "to" it is
\* given are bare YYYY-MM-DD dates and are the very values the URL of that
\* request holds
C18_QueryGetsSuppliedBareDates ==
  \A r \in Reqs :
    \A i \in DOMAIN queries[r] :
      LET filter == queries[r][i].filter
      IN /\ IsBareDate(filter.from) /\ IsBareDate(filter.to)
         /\ filter.from = FromOf(r) /\ filter.to = ToOf(r)
         /\ queries[r][i].fn \in FetchFns

\* the query is awaited for a range of two different days
C18_Witness ==
  \E r \in Reqs :
    /\ pc[r] = "awaiting"
    /\ queries[r] = <<[fn |-> "fetchDailyParticipants",
                       filter |-> [from |-> W_day1, to |-> W_day2]]>>
    /\ FromOf(r) = W_day1 /\ ToOf(r) = W_day2

\* C20: no response with status 400, 404 or 500 carries a cache-control
\* header; the header is on the 302, on the 301 and on the 200 sent after the
\* query has resolved, and on nothing before that
C20_ErrorsCarryNoCacheControl ==
  \A r \in Reqs :
    /\ Responded(r) /\ res[r].statusCode \in {400, 404, 500} =>
         res[r].headers["cache-control"] = <<>>
    /\ res[r].headers["cache-control"] # <<>> =>
         /\ Responded(r)
         /\ res[r].statusCode \in {200, 301, 302}
         /\ res[r].statusCode = 200 => res[r].body = Rows

\* a failed query has been answered without cache-control
C20_Witness ==
  \E r \in Reqs :
    /\ Responded(r) /\ res[r].statusCode = 500
    /\ Len(queries[r]) = 1
    /\ CacheControlOf(r) = ""

\* the client of request r first asked without "to", at an instant no more
\* than 600 seconds (ten minutes of the clock) before t, and was sent a 302
DefaultedToWithin600s(r, t) ==
  /\ chain[r] # <<>> /\ chain[r][1] = 302
  /\ ~Supplied(SearchParamsGet(origin[r].search, S_to))
  /\ origin[r].at <= t /\ t <= origin[r].at + 600 \div 60

\* C19: when a request without "to" was answered with 302 at t0 and the query
\* of the redirect target resolves at t1 with t0 <= t1 <= t0 + 600 s, the
\* data response carries `public, max-age=600`, also across a change of day
C19_DefaultedToIsNeverImmutable ==
  [][\A r \in Reqs :
       pc[r] = "awaiting" /\ pc'[r] = "fulfilled" /\ DefaultedToWithin600s(r, now) =>
         /\ res'[r].statusCode = 200 /\ res'[r].body = Rows
         /\ HeaderOf(res'[r], "cache-control") = ShortPublic]_vars

\* the 302 was sent on 2023-12-31 and the data within ten minutes, on 2024-01-01
C19_Witness ==
  \E r \in Reqs :
    /\ pc[r] = "fulfilled" /\ res[r].body = Rows
    /\ DefaultedToWithin600s(r, now)
    /\ CalendarDay(origin[r].at) = W_day1 /\ CalendarDay(start[r]) = W_day2
    /\ ToOf(r) = W_day1
    /\ CacheControlOf(r) = ShortPublic

\* the response to request q when it is handled alone: it arrives when the
\* clock reads t0, and its query, if it comes to one, fails or resolves when
\* the clock reads t1
AloneResponse(q, t0, t1, fails) ==
  LET h == handler(q, NewResponse, t0)
  IN CASE h.outcome = "return" -> h.res
       [] h.outcome = "throw" -> errorHandler(h.res, h.err).res
       [] h.outcome = "await" ->
            IF fails THEN errorHandler(h.res, QueryError).res
            ELSE SendStats(h.res, h.call.filter, Rows, t1)

\* all that the program holds for request r
SlotOf(r) ==
  <<req[r], pc[r], res[r], start[r], queries[r], err[r], errorLog[r], sentry[r],
    requestLog[r]>>

\* C21: however the requests in flight interleave at their awaits, the
\* response each of them gets (status, headers, body) is the response it would
\* get alone with the same input, clock readings and query outcome; a step
\* taken for one request leaves what is held for every other request as it
\* was, and a response once sent is not changed by later steps
C21_RequestIsolation ==
  [][\A r \in Reqs :
       /\ pc[r] # "fulfilled" /\ pc'[r] = "fulfilled" =>
            res'[r] = AloneResponse(req'[r], start'[r], now', err'[r] = QueryError)
       /\ pc[r] = "fulfilled" /\ pc'[r] = "done" => res'[r] = res[r]
       /\ SlotOf(r)' # SlotOf(r) => \A o \in Reqs \ {r} : SlotOf(o)' = SlotOf(o)]_vars

\* a request that arrived while an older one was awaiting its query has been
\* served its own range, and the older one is still awaiting
C21_Witness ==
  \E r, o \in Reqs :
    /\ pc[o] = "awaiting" /\ start[o] < start[r]
    /\ pc[r] = "fulfilled" /\ res[r].body = Rows
    /\ ToOf(o) = W_day2 /\ ToOf(r) = W_day1
    /\ CacheControlOf(r) = LongImmutable

====
